---- MODULE Spec2Model ----
(***************************************************************************)
(* A model of agentd's tool-augmented completion orchestrator              *)
(* (src/agentd/patch.py): the connect-if-absent server cache, the schema   *)
(* merger, the tool dispatchers and the two completion-style drivers of    *)
(* _handle_llm_call.                                                       *)
(*                                                                         *)
(* Python runs one coroutine at a time and switches only at an await, so   *)
(* every action below is the code between two suspension points.           *)
(***************************************************************************)
EXTENDS Integers, Sequences, FiniteSets, TLC

VARIABLES
    is_responses,   \* _handle_llm_call's flag: Response Follow-up Driver or Chat Loop Driver
    pc,             \* where the orchestration call is suspended
    loop_count,     \* the chat loop's iteration counter
    messages,       \* current_messages (the caller's list) / input_history
    clean_kwargs,   \* the options passed through to the backend (a dict)
    final_tools,    \* the merged tool list of this call (names), None once dropped
    requests,       \* every backend call issued so far, in order
    replies,        \* every response of the backend so far, in order
    resp,           \* the latest response of the backend
    calls,          \* the tool calls of the round being dispatched
    tasks,          \* the coroutines handed to asyncio.gather, one per call
    completed,      \* indexes of the tool-server calls of this round, in completion order
    exc,            \* the exception set on the gather / raised to the caller
    result,         \* the response returned to the caller
    warned,         \* logger.warning("Reached max tool loops") was emitted
    provider,       \* the provider get_llm_provider resolved from the model identifier
    payload,        \* the caller's list object (messages= or input=)
    \* orchestration calls sharing one client, each on its way to its first backend call
    mcp_servers,    \* the tool-server handles each call was given, in order
    cpc,            \* where each call is suspended
    cpos,           \* the pass over mcp_servers each call is in, and its place in it
    server_cache,   \* client._mcp_server_cache: server name -> handle
    connects,       \* per handle: connect() calls started, returned and raised
    obtained,       \* per call: the handles _ensure_connected returned to it, in order
    overlap,        \* some _ensure_connected began while another was suspended in connect
    \* the Schema Merger (steps 1 and 2 of the handler); its result is final_tools
    tools,          \* the caller's tools= declarations
    mcp_tools,      \* the tools the connected servers list (MCPUtil.get_all_function_tools)
    registry,       \* SCHEMA_REGISTRY: name -> declared schema, in insertion order
    mpc,            \* "start" before the merge, "merged" after it
    \* the global bridge of mcp_bridge.py and the coroutines calling its functions
    bridge,         \* _bridge: None or the global MCPBridge instance
    bstate,         \* per instance: how far its start() has come
    starts,         \* per instance: the number of times start() was called on it
    bpc,            \* per coroutine: where it is suspended
    bself,          \* per coroutine: the instance whose start() or stop() it awaits
    handed,         \* what the latest call of start_bridge or get_bridge returned
    start_returned, \* some call of start_bridge has returned
    \* one ConversationLog of conversation_logger.py and the threads using it
    file,           \* the lines of the log file (event names)
    closed,         \* self._file is closed
    lock,           \* self._lock: the thread holding it, if any
    lpc,            \* per thread: where it is in _write or end
    levent,         \* per thread: the event its _write is about
    ended,          \* end() has been called
    log_calls,      \* the calls of message, tool_call and tool_result so far
    swallowed       \* the exceptions of write that _write has swallowed

dvars == <<is_responses, pc, loop_count, messages, clean_kwargs, final_tools,
           requests, replies, resp, calls, tasks, completed, exc, result, warned,
           provider, payload>>

cvars == <<mcp_servers, cpc, cpos, server_cache, connects, obtained, overlap>>

mvars == <<tools, mcp_tools, registry, mpc>>

bvars == <<bridge, bstate, starts, bpc, bself, handed, start_returned>>

lvars == <<file, closed, lock, lpc, levent, ended, log_calls, swallowed>>

vars == <<dvars, cvars, mvars, bvars, lvars>>

-----------------------------------------------------------------------------
(* Bounds of the model *)

\* the most tool calls one model response requests
MaxBatch == 3

\* the orchestration calls that share one client
MaxCalls == 2

\* the most declarations a caller passes in tools=
MaxExplicit == 2

\* the coroutines calling start_bridge, stop_bridge and get_bridge
MaxTasks == 2

\* the most MCPBridge instances made
MaxInstances == 2

\* the threads using one ConversationLog
MaxThreads == 2

\* the most events logged through one ConversationLog, session_end aside
MaxEvents == 2

(* Program constants *)

MAX_TOOL_LOOPS == 20

-----------------------------------------------------------------------------
(* Python values *)

NoneVal == <<"None">>
NoneName == "<None>"
EmptyDict == [k \in {} |-> NoneVal]
Min(S) == CHOOSE x \in S : \A y \in S : x <= y

\* dict.pop(key, None)
Pop(d, key) == [k \in (DOMAIN d) \ {key} |-> d[k]]

\* isinstance(x, str): texts are tagged "text", "str" (made by str) or "json" (JSON text)
IsStr(x) == x[1] \in {"str", "json", "text"}

\* str(x): a text is returned as it is, anything else is rendered
PyStr(x) == IF IsStr(x) THEN x ELSE <<"str", x>>

\* json.dumps(x): the JSON text of x
JsonDumps(x) == <<"json", x>>

\* if x: None and the empty list are false
Truthy(x) == x # NoneVal /\ x # <<>>

Absent == <<"absent">>

-----------------------------------------------------------------------------
(* The environment of one orchestration call: the tool servers, the        *)
(* registry and the caller's declarations.                                 *)

\* what call_tool does for each tool a connected server lists
ServerBehaviour ==
    [srv_ok |-> "content", srv_nc |-> "no_content", srv_err |-> "raises"]

\* server_lookup: the names listed by the connected servers
server_lookup == DOMAIN ServerBehaviour

\* FUNCTION_REGISTRY / SCHEMA_REGISTRY of agentd.tool_decorator: @tool registers both
FUNCTION_REGISTRY == {"loc"}
SCHEMA_REGISTRY == {"loc"}

\* the caller's tools= list: one flat declaration, one nested under 'function'
explicit ==
    << [name |-> "caller", description |-> "by caller"],
       [type |-> "function", function |-> [name |-> "callerN", description |-> "by caller"]] >>

\* dict.get(key): None when the key is missing (GetName where the value is a name)
Get(d, key) == IF key \in DOMAIN d THEN d[key] ELSE NoneVal
GetName(d, key) == IF key \in DOMAIN d THEN d[key] ELSE NoneName

\* explicit_names = {s.get('name') for s in explicit if isinstance(s, dict)}
explicit_names == {GetName(explicit[i], "name") : i \in 1..Len(explicit)}

\* the tool names a model may ask for: the above and one that nobody declares
ToolNames == server_lookup \cup FUNCTION_REGISTRY \cup {"caller", "callerN", "ghost"}

\* the merged tool list of the call, the names in merge order
MergedNames == <<"caller", "callerN", "srv_ok", "srv_nc", "srv_err", "loc">>

-----------------------------------------------------------------------------
(* The model's responses *)

\* a requested call: a tool name and whether its arguments are well-formed JSON text
CallKinds == (ToolNames \X {"json"}) \cup ({"loc", "caller", "srv_ok"} \X {"bad"})

BatchShapes == UNION {[1..n -> CallKinds] : n \in 1..MaxBatch}

\* the calls of response number `round`: ids and arguments are unique to the call
MkCalls(shape, round) ==
    [i \in 1..Len(shape) |->
        [id |-> <<round, i>>, name |-> shape[i][1],
         arguments |-> <<shape[i][2], round, i>>]]

ShapeOf(cs) == [i \in 1..Len(cs) |-> <<cs[i].name, cs[i].arguments[1]>>]

NoResp == [id |-> 0, calls |-> <<>>]

\* The first response is free; afterwards the model stops asking for tools,
\* asks for one tool with malformed arguments, asks for the tool the caller
\* declared, or asks again for the tools of its last response but the last one
\* (for its only one when there was one), with new ids and arguments.
ReplyShapes ==
    IF Len(requests) = 1 THEN BatchShapes \cup {<<>>}
    ELSE {<<>>, << <<"loc", "bad">> >>, << <<"caller", "json">> >>,
          IF Len(resp.calls) > 1
          THEN SubSeq(ShapeOf(resp.calls), 1, Len(resp.calls) - 1)
          ELSE ShapeOf(resp.calls)}

-----------------------------------------------------------------------------
(* Tool calls *)

\* json.loads(raw) if isinstance(raw, str) else raw
ValidJson(raw) == raw[1] = "json"
JsonLoads(raw) == <<"args", raw[2], raw[3]>>
ParseArgs(raw) == IF raw[1] \in {"json", "bad"} THEN JsonLoads(raw) ELSE raw

\* result.dict().get('content') of a reply of call_tool
ReplyOf(name, args) ==
    IF ServerBehaviour[name] = "content"
    THEN [content |-> <<"content", name, args>>, isError |-> FALSE]
    ELSE [isError |-> FALSE]

\* fn(**fn_args) of a registered callable that returns
LocalOut(name, args) == <<"text", name, args>>

\* f"Error calling MCP tool {fn_name}: {str(e)}"
ErrorText(name) == <<"text", "Error calling MCP tool", name>>

NoTask == [st |-> "pending", out |-> NoneVal, err |-> "none"]
Done(out) == [st |-> "done", out |-> out, err |-> "none"]
Failed(err) == [st |-> "failed", out |-> NoneVal, err |-> err]
Waiting == [st |-> "waiting", out |-> NoneVal, err |-> "none"]

\* the assistant entry left out: only the tool entry is returned
ChatPart_ToolOnly(call, output) ==
    << [role |-> "tool", name |-> call.name, content |-> PyStr(output),
        tool_call_id |-> call.id] >>

\* what _process_tool_call returns on the completions path
ChatPart(call, output) ==
    << [role |-> "assistant", tool_calls |-> <<call>>],
       [role |-> "tool", name |-> call.name, content |-> PyStr(output),
        tool_call_id |-> call.id] >>

\* _process_tool_call up to its first suspension; `raises`: the callable raises
ProcessToolCallStart(call, fn_args, raises) ==
    IF call.name \in server_lookup THEN Waiting
    ELSE IF call.name \notin FUNCTION_REGISTRY THEN Failed("KeyError")
    ELSE IF raises THEN Failed("ToolError")
    ELSE Done(ChatPart(call, LocalOut(call.name, fn_args)))

\* the same without the try/except
ProcessToolCallEnd_NoExcept(call, fn_args) ==
    IF ServerBehaviour[call.name] = "raises"
    THEN Failed("ServerError")
    ELSE Done(ChatPart(call, Get(ReplyOf(call.name, fn_args), "content")))

\* _process_tool_call resumed by the end of server.call_tool: try/except around it
ProcessToolCallEnd(call, fn_args) ==
    IF ServerBehaviour[call.name] = "raises"
    THEN Done(ChatPart(call, ErrorText(call.name)))
    ELSE Done(ChatPart(call, Get(ReplyOf(call.name, fn_args), "content")))

\* _execute_tool up to its first suspension
ExecuteToolStart(call, fn_args, raises) ==
    IF call.name \in server_lookup THEN Waiting
    ELSE IF call.name \notin FUNCTION_REGISTRY THEN Failed("TypeError")
    ELSE IF raises THEN Failed("ToolError")
    ELSE Done(LocalOut(call.name, fn_args))

\* _execute_tool resumed by the end of call_tool: nothing catches its exception
ExecuteToolEnd(call, fn_args) ==
    IF ServerBehaviour[call.name] = "raises"
    THEN Failed("ServerError")
    ELSE Done(Get(ReplyOf(call.name, fn_args), "content"))

-----------------------------------------------------------------------------
(* _handle_llm_call *)

\* the options a caller passes (after _clean_kwargs): none, or a tool_choice and
\* a previous_response_id of their own, the id of an earlier response (the
\* responses of this call have the ids 1, 2, ...)
CallerOptions ==
    { EmptyDict,
      [tool_choice |-> <<"text", "required">>, previous_response_id |-> 0] }

\* the providers a model identifier resolves to: the native API or another one
Providers == {"openai", "anthropic"}

\* the conversation payload of the caller
Payload == << [role |-> "user", content |-> <<"text", "question">>] >>

DriverInit ==
    /\ is_responses \in BOOLEAN
    /\ provider \in Providers
    /\ payload = Payload
    /\ pc = "start"
    /\ loop_count = 0
    /\ messages = Payload
    /\ clean_kwargs \in CallerOptions
    /\ final_tools = MergedNames
    /\ requests = <<>>
    /\ replies = <<>>
    /\ resp = NoResp
    /\ calls = <<>>
    /\ tasks = <<>>
    /\ completed = <<>>
    /\ exc = "none"
    /\ result = NoResp
    /\ warned = FALSE

\* the entry point a model call goes to: the patched method of the client
\* (orig_fn) when the provider is the native API, the routing layer otherwise
Backend(prov) == IF prov = "openai" THEN "orig_fn" ELSE "litellm"

\* the credential passed with every call, the native ones too
ApiKey_Always(prov) == <<"text", "api_key">>

\* the credential of a call: api_key goes with the calls of the routing layer
ApiKey(prov) == IF prov # "openai" THEN <<"text", "api_key">> ELSE Absent

\* the merged list attached to every request of the loop
ChatRequest_Always(msgs, kw, ft) ==
    [api |-> "chat", input_len |-> Len(msgs), kwargs |-> kw,
     backend |-> Backend(provider), api_key |-> ApiKey(provider),
     tools |-> MergedNames,
     previous_response_id |-> Get(kw, "previous_response_id")]

\* the chat request of one loop iteration (call_args)
ChatRequest(msgs, kw, ft) ==
    [api |-> "chat", input_len |-> Len(msgs), kwargs |-> kw,
     backend |-> Backend(provider), api_key |-> ApiKey(provider),
     tools |-> IF Truthy(ft) /\ "tool_choice" \in DOMAIN kw THEN ft ELSE Absent,
     previous_response_id |-> Get(kw, "previous_response_id")]

\* the initial request of the Response Follow-up Driver
InitialRequest(input, kw, ft) ==
    [api |-> "responses", input_len |-> Len(input), kwargs |-> kw, tools |-> ft,
     backend |-> Backend(provider), api_key |-> ApiKey(provider),
     previous_response_id |-> Get(kw, "previous_response_id")]

\* the caller's previous_response_id kept when there is one
FollowRequest_KeepsPrev(input, kw, prev) ==
    [api |-> "responses", input_len |-> Len(input),
     kwargs |-> Pop(kw, "previous_response_id"), tools |-> Absent,
     backend |-> Backend(provider), api_key |-> ApiKey(provider),
     previous_response_id |->
        IF "previous_response_id" \in DOMAIN kw THEN kw["previous_response_id"] ELSE prev]

\* its follow-up request
FollowRequest(input, kw, prev) ==
    [api |-> "responses", input_len |-> Len(input),
     kwargs |-> Pop(kw, "previous_response_id"), tools |-> Absent,
     backend |-> Backend(provider), api_key |-> ApiKey(provider),
     previous_response_id |-> prev]

\* Step 4 of the handler, then the first backend call.
Enter ==
    /\ pc = "start"
    /\ clean_kwargs' =
          IF Truthy(final_tools) /\ "tool_choice" \notin DOMAIN clean_kwargs
          THEN ("tool_choice" :> <<"text", "auto">>) @@ clean_kwargs
          ELSE clean_kwargs
    /\ loop_count' = IF is_responses THEN loop_count ELSE loop_count + 1
    /\ requests' = Append(requests,
          IF is_responses THEN InitialRequest(messages, clean_kwargs', final_tools)
          ELSE ChatRequest(messages, clean_kwargs', final_tools))
    /\ pc' = "await_model"
    /\ UNCHANGED <<cvars, mvars, bvars, lvars>>
    /\ UNCHANGED <<is_responses, provider, payload, messages, final_tools, replies, resp,
                   calls, tasks, completed, exc, result, warned>>

\* the guard looking at the name of a call before its arguments are parsed
ChatScan_GuardFirst(tool_calls) ==
    LET stops == {i \in 1..Len(tool_calls) :
                    \/ ~ValidJson(tool_calls[i].arguments)
                    \/ /\ tool_calls[i].name \in explicit_names
                       /\ tool_calls[i].name \notin server_lookup
                       /\ tool_calls[i].name \notin SCHEMA_REGISTRY}
    IN  IF stops = {} THEN "dispatch"
        ELSE IF /\ tool_calls[Min(stops)].name \in explicit_names
                /\ tool_calls[Min(stops)].name \notin server_lookup
                /\ tool_calls[Min(stops)].name \notin SCHEMA_REGISTRY
             THEN "return"
        ELSE "JSONDecodeError"

\* The for loop over tool_calls (chat): the first call that stops it, and how.
ChatScan(tool_calls) ==
    LET stops == {i \in 1..Len(tool_calls) :
                    \/ ~ValidJson(tool_calls[i].arguments)
                    \/ /\ tool_calls[i].name \in explicit_names
                       /\ tool_calls[i].name \notin server_lookup
                       /\ tool_calls[i].name \notin SCHEMA_REGISTRY}
    IN  IF stops = {} THEN "dispatch"
        ELSE IF ~ValidJson(tool_calls[Min(stops)].arguments) THEN "JSONDecodeError"
        ELSE "return"

\* The list comprehension building the tasks (responses).
ResponsesScan(fcalls) ==
    IF \E i \in 1..Len(fcalls) : ~ValidJson(fcalls[i].arguments)
    THEN "JSONDecodeError" ELSE "dispatch"

\* a slip of the comparison: the cap is tested one iteration late
ChatDone_Late(tool_calls, n) == tool_calls = <<>> \/ n > MAX_TOOL_LOOPS

\* if not tool_calls or loop_count >= MAX_TOOL_LOOPS: ... return resp
ChatDone(tool_calls, n) == tool_calls = <<>> \/ n >= MAX_TOOL_LOOPS

\* the early return left out
ResponsesDone_Never(fcalls) == FALSE

\* calls = [o for o in resp.output if o.type == 'function_call']; if not calls: return resp
ResponsesDone(fcalls) == fcalls = <<>>

\* The backend answers a chat request or the initial responses request; the
\* handler runs on to its next suspension (the gather) or to its end.
ModelReplies ==
    /\ pc = "await_model"
    /\ \E shape \in ReplyShapes :
        LET r == [id |-> Len(requests), calls |-> MkCalls(shape, Len(requests))]
            done == IF is_responses THEN ResponsesDone(r.calls)
                    ELSE ChatDone(r.calls, loop_count)
            scan == IF is_responses THEN ResponsesScan(r.calls) ELSE ChatScan(r.calls)
        IN  /\ resp' = r
            /\ replies' = Append(replies, r)
            /\ completed' = <<>>
            /\ IF done \/ scan = "return"
               THEN /\ pc' = "returned"
                    /\ result' = r
                    /\ warned' = (~is_responses /\ done /\ loop_count >= MAX_TOOL_LOOPS)
                    /\ UNCHANGED <<calls, tasks, exc>>
               ELSE IF scan = "JSONDecodeError"
               THEN /\ pc' = "raised"
                    /\ exc' = "JSONDecodeError"
                    /\ UNCHANGED <<calls, tasks, result, warned>>
               ELSE /\ pc' = "gather"
                    /\ calls' = r.calls
                    /\ tasks' = [i \in 1..Len(r.calls) |-> NoTask]
                    /\ UNCHANGED <<exc, result, warned>>
    /\ UNCHANGED <<cvars, mvars, bvars, lvars>>
    /\ UNCHANGED <<is_responses, provider, payload, loop_count, messages, clean_kwargs, final_tools, requests>>

\* The event loop runs every task of the gather to its first suspension, in order.
RunTasks ==
    /\ pc = "gather"
    /\ tasks # <<>>
    /\ \A i \in 1..Len(tasks) : tasks[i].st = "pending"
    /\ \E raising \in SUBSET {i \in 1..Len(calls) : calls[i].name \in FUNCTION_REGISTRY \ server_lookup} :
        LET started == [i \in 1..Len(calls) |->
                          IF is_responses
                          THEN ExecuteToolStart(calls[i], ParseArgs(calls[i].arguments), i \in raising)
                          ELSE ProcessToolCallStart(calls[i], ParseArgs(calls[i].arguments), i \in raising)]
            failing == {i \in 1..Len(calls) : started[i].st = "failed"}
        IN  /\ tasks' = started
            /\ exc' = IF failing = {} THEN exc ELSE started[Min(failing)].err
    /\ UNCHANGED <<cvars, mvars, bvars, lvars>>
    /\ UNCHANGED <<is_responses, provider, payload, pc, loop_count, messages, clean_kwargs, final_tools,
                   requests, replies, resp, calls, completed, result, warned>>

\* A tool server answers call_tool of task i (or call_tool raises).
ToolReplies(i) ==
    /\ pc \in {"gather", "raised"}
    /\ i \in 1..Len(tasks)
    /\ tasks[i].st = "waiting"
    /\ LET t == IF is_responses
                THEN ExecuteToolEnd(calls[i], ParseArgs(calls[i].arguments))
                ELSE ProcessToolCallEnd(calls[i], ParseArgs(calls[i].arguments))
       IN  /\ tasks' = [tasks EXCEPT ![i] = t]
           /\ exc' = IF t.st = "failed" /\ exc = "none" THEN t.err ELSE exc
    /\ completed' = Append(completed, i)
    /\ UNCHANGED <<cvars, mvars, bvars, lvars>>
    /\ UNCHANGED <<is_responses, provider, payload, pc, loop_count, messages, clean_kwargs, final_tools,
                   requests, replies, resp, calls, result, warned>>

\* asyncio.gather hands the first exception of a task to the handler, which
\* does not catch it: the orchestration call ends, raising.
GatherRaises ==
    /\ pc = "gather"
    /\ exc # "none"
    /\ pc' = "raised"
    /\ UNCHANGED <<cvars, mvars, bvars, lvars>>
    /\ UNCHANGED <<is_responses, provider, payload, loop_count, messages, clean_kwargs, final_tools,
                   requests, replies, resp, calls, tasks, completed, exc, result, warned>>

\* the loop working on a copy of the caller's list, which stays as it was
InPlace_OnCopy(extended, callers) == callers

\* current_messages = payload: the list the loop extends is the caller's list
\* object itself, so the caller's list is the extended one
InPlace(extended, callers) == extended

RECURSIVE Extend(_, _, _)
\* for part in parts: current_messages.extend(part), from part i on
Extend(msgs, parts, i) ==
    IF i > Len(parts) THEN msgs ELSE Extend(msgs \o parts[i].out, parts, i + 1)

RECURSIVE FollowInput_LateBinding(_, _, _, _)
\* every output entry tagged with the id of the last call of the batch
FollowInput_LateBinding(input, fcalls, results, i) ==
    IF i > Len(fcalls) THEN input
    ELSE FollowInput_LateBinding(
            Append(input,
                [type |-> "function_call_output", call_id |-> fcalls[Len(fcalls)].id,
                 output |-> IF ~IsStr(results[i].out) THEN JsonDumps(results[i].out)
                            ELSE results[i].out]),
            fcalls, results, i + 1)

RECURSIVE FollowInput(_, _, _, _)
\* for call, result in zip(calls, results): follow_input.append({...}), from i on
FollowInput(input, fcalls, results, i) ==
    IF i > Len(fcalls) THEN input
    ELSE FollowInput(
            Append(input,
                [type |-> "function_call_output", call_id |-> fcalls[i].id,
                 output |-> IF ~IsStr(results[i].out) THEN JsonDumps(results[i].out)
                            ELSE results[i].out]),
            fcalls, results, i + 1)

\* results collected as the tasks finish (asyncio.as_completed)
GatherResults_AsCompleted(ts, done) ==
    IF Len(done) = Len(ts) THEN [i \in 1..Len(ts) |-> ts[done[i]]] ELSE ts

\* results = await asyncio.gather(*tasks): the results in the order of the
\* arguments, whatever the order `done` in which the tasks finished
GatherResults(ts, done) == ts

\* Every task of the gather has returned: the results go into the conversation
\* in the order of the gather's arguments, and the next backend call is issued.
GatherReturns ==
    /\ pc = "gather"
    /\ tasks # <<>>
    /\ \A i \in 1..Len(tasks) : tasks[i].st = "done"
    /\ IF is_responses
       THEN /\ messages' = FollowInput(messages, calls, GatherResults(tasks, completed), 1)
            /\ requests' = Append(requests, FollowRequest(messages', clean_kwargs, resp.id))
            /\ pc' = "await_follow"
            /\ UNCHANGED <<loop_count, clean_kwargs, final_tools, payload>>
       ELSE /\ messages' = Extend(messages, GatherResults(tasks, completed), 1)
            /\ payload' = InPlace(messages', payload)
            /\ clean_kwargs' = Pop(Pop(clean_kwargs, "tools"), "tool_choice")
            /\ final_tools' = NoneVal
            /\ loop_count' = loop_count + 1
            /\ requests' = Append(requests, ChatRequest(messages', clean_kwargs', final_tools'))
            /\ pc' = "await_model"
    /\ UNCHANGED <<cvars, mvars, bvars, lvars>>
    /\ UNCHANGED <<is_responses, provider, replies, resp, calls, tasks, completed, exc,
                   result, warned>>

\* a follow-up that is served another round when it asks for tools
FollowReplies_Loops ==
    /\ pc = "await_follow"
    /\ \E shape \in ReplyShapes :
        LET r == [id |-> Len(requests), calls |-> MkCalls(shape, Len(requests))]
        IN  /\ resp' = r
            /\ replies' = Append(replies, r)
            /\ IF r.calls = <<>>
               THEN /\ pc' = "returned"
                    /\ result' = r
                    /\ UNCHANGED <<calls, tasks>>
               ELSE /\ pc' = "gather"
                    /\ calls' = r.calls
                    /\ tasks' = [i \in 1..Len(r.calls) |-> NoTask]
                    /\ UNCHANGED result
    /\ UNCHANGED <<cvars, mvars, bvars, lvars>>
    /\ UNCHANGED <<is_responses, provider, payload, loop_count, messages, clean_kwargs, final_tools,
                   requests, completed, exc, warned>>

\* The backend answers the follow-up request: its response is returned as it is.
FollowReplies ==
    /\ pc = "await_follow"
    /\ \E shape \in ReplyShapes :
        LET r == [id |-> Len(requests), calls |-> MkCalls(shape, Len(requests))]
        IN  /\ resp' = r
            /\ replies' = Append(replies, r)
            /\ result' = r
    /\ pc' = "returned"
    /\ UNCHANGED <<cvars, mvars, bvars, lvars>>
    /\ UNCHANGED <<is_responses, provider, payload, loop_count, messages, clean_kwargs, final_tools,
                   requests, calls, tasks, completed, exc, warned>>

DriverIdle ==
    /\ is_responses = FALSE
    /\ provider = "none"
    /\ payload = <<>>
    /\ pc = "off"
    /\ loop_count = 0
    /\ messages = <<>>
    /\ clean_kwargs = EmptyDict
    /\ final_tools = <<>>
    /\ requests = <<>>
    /\ replies = <<>>
    /\ resp = NoResp
    /\ calls = <<>>
    /\ tasks = <<>>
    /\ completed = <<>>
    /\ exc = "none"
    /\ result = NoResp
    /\ warned = FALSE

DriverNext ==
    \/ Enter
    \/ ModelReplies
    \/ RunTasks
    \/ \E i \in 1..MaxBatch : ToolReplies(i)
    \/ GatherRaises
    \/ GatherReturns
    \/ FollowReplies

-----------------------------------------------------------------------------
(* The Server Connection Cache: _ensure_connected as the orchestration calls   *)
(* of one client run it, in steps 1 (_prepare_mcp_tools) and 3 of the handler. *)
(* The calls are coroutines of one event loop (or run one after the other):    *)
(* they interleave at the awaits.                                              *)

\* the handles the callers hold, and server.name of each: a1 and a2 are two
\* objects for the same server
HandleName == [a1 |-> "A", a2 |-> "A", b1 |-> "B"]
Handles == DOMAIN HandleName
ServerNames == {HandleName[h] : h \in Handles}

\* the mcp_servers= lists a call may be given
ServerLists == { <<"a1">>, <<"a1", "b1">>, <<"b1", "a2">> }

Procs == 1..MaxCalls

NoHandle == "none"

ConnInit ==
    /\ mcp_servers \in [Procs -> ServerLists]
    /\ cpc = [p \in Procs |-> "ensure"]
    /\ cpos = [p \in Procs |-> [pass |-> 1, idx |-> 1]]
    /\ server_cache = [n \in ServerNames |-> NoHandle]
    /\ connects = [h \in Handles |-> [started |-> 0, returned |-> 0, raised |-> 0]]
    /\ obtained = [p \in Procs |-> <<>>]
    /\ overlap = FALSE

ConnIdle ==
    /\ mcp_servers = <<>>
    /\ cpc = <<>>
    /\ cpos = <<>>
    /\ server_cache = <<>>
    /\ connects = <<>>
    /\ obtained = <<>>
    /\ overlap = FALSE

\* the handle call p is about to pass to _ensure_connected
Server(p) == mcp_servers[p][cpos[p].idx]

\* the check of the cache left out: connect every time
InCache_Never(name, cache) == FALSE

\* server.name in server_cache
InCache(name, cache) == cache[name] # NoHandle

\* the entry stored before the connect is awaited
StoreEarly_Bug(cache, server) == [cache EXCEPT ![HandleName[server]] = server]

\* what _ensure_connected writes to the cache before it awaits server.connect(): nothing
StoreEarly(cache, server) == cache

\* server_cache[server.name] = server
Store(cache, server) == [cache EXCEPT ![HandleName[server]] = server]

\* _ensure_connected has returned handle h to call p. In pass 1 the next server
\* follows, then the await of MCPUtil.get_all_function_tools; in pass 2 the
\* await of conn.list_tools().
Returned(p, h) ==
    /\ obtained' = [obtained EXCEPT ![p] = Append(@, h)]
    /\ IF cpos[p].pass = 1 /\ cpos[p].idx < Len(mcp_servers[p])
       THEN /\ cpc' = [cpc EXCEPT ![p] = "ensure"]
            /\ cpos' = [cpos EXCEPT ![p].idx = @ + 1]
       ELSE /\ cpc' = [cpc EXCEPT ![p] = "tools"]
            /\ UNCHANGED cpos

\* _ensure_connected finds server.name in the cache and returns the entry.
EnsureHit(p) ==
    /\ cpc[p] = "ensure"
    /\ InCache(HandleName[Server(p)], server_cache)
    /\ Returned(p, server_cache[HandleName[Server(p)]])
    /\ overlap' = (overlap \/ \E q \in Procs \ {p} : cpc[q] = "connect")
    /\ UNCHANGED <<dvars, mvars, bvars, lvars>>
    /\ UNCHANGED <<mcp_servers, server_cache, connects>>

\* _ensure_connected does not find it and awaits server.connect().
EnsureMiss(p) ==
    /\ cpc[p] = "ensure"
    /\ ~InCache(HandleName[Server(p)], server_cache)
    /\ connects' = [connects EXCEPT ![Server(p)].started = @ + 1]
    /\ server_cache' = StoreEarly(server_cache, Server(p))
    /\ cpc' = [cpc EXCEPT ![p] = "connect"]
    /\ overlap' = (overlap \/ \E q \in Procs \ {p} : cpc[q] = "connect")
    /\ UNCHANGED <<dvars, mvars, bvars, lvars>>
    /\ UNCHANGED <<mcp_servers, cpos, obtained>>

\* connect() returns: the handle is stored under its name and returned.
ConnectReturns(p) ==
    /\ cpc[p] = "connect"
    /\ connects' = [connects EXCEPT ![Server(p)].returned = @ + 1]
    /\ server_cache' = Store(server_cache, Server(p))
    /\ Returned(p, server_cache'[HandleName[Server(p)]])
    /\ UNCHANGED <<dvars, mvars, bvars, lvars>>
    /\ UNCHANGED <<mcp_servers, overlap>>

\* the exception of connect caught and the server cached all the same
ConnectRaises_Swallowed(p) ==
    /\ cpc[p] = "connect"
    /\ connects' = [connects EXCEPT ![Server(p)].raised = @ + 1]
    /\ server_cache' = Store(server_cache, Server(p))
    /\ Returned(p, Server(p))
    /\ UNCHANGED <<dvars, mvars, bvars, lvars>>
    /\ UNCHANGED <<mcp_servers, overlap>>

\* connect() raises: nothing catches it, the orchestration call ends.
ConnectRaises(p) ==
    /\ cpc[p] = "connect"
    /\ connects' = [connects EXCEPT ![Server(p)].raised = @ + 1]
    /\ cpc' = [cpc EXCEPT ![p] = "raised"]
    /\ UNCHANGED <<dvars, mvars, bvars, lvars>>
    /\ UNCHANGED <<mcp_servers, cpos, server_cache, obtained, overlap>>

\* The tool listing awaited by call p returns: step 3 of the handler begins or
\* goes on with its next server; after the last one the handler reaches step 4
\* and its first backend call.
ToolsListed(p) ==
    /\ cpc[p] = "tools"
    /\ IF cpos[p].pass = 1
       THEN /\ cpos' = [cpos EXCEPT ![p] = [pass |-> 2, idx |-> 1]]
            /\ cpc' = [cpc EXCEPT ![p] = "ensure"]
       ELSE IF cpos[p].idx < Len(mcp_servers[p])
       THEN /\ cpos' = [cpos EXCEPT ![p].idx = @ + 1]
            /\ cpc' = [cpc EXCEPT ![p] = "ensure"]
       ELSE /\ cpc' = [cpc EXCEPT ![p] = "llm"]
            /\ UNCHANGED cpos
    /\ UNCHANGED <<dvars, mvars, bvars, lvars>>
    /\ UNCHANGED <<mcp_servers, server_cache, connects, obtained, overlap>>

ConnNext ==
    \E p \in Procs :
        \/ EnsureHit(p)
        \/ EnsureMiss(p)
        \/ ConnectReturns(p)
        \/ ConnectRaises(p)
        \/ ToolsListed(p)

-----------------------------------------------------------------------------
(* The Schema Merger: steps 1 and 2 of _handle_llm_call *)

\* a parameters mapping: a JSON schema with content, or the empty mapping {}
EmptyMap == <<"{}">>
Params(source, i) == <<"schema", source, i>>
Description(source, i) == <<"text", source, i>>

\* a or b
PyOr(a, b) == IF a \notin {NoneVal, EmptyMap, <<>>} THEN a ELSE b

\* a declaration: nested under 'function' or flat; its name "t", "u", empty or
\* missing; its parameters with content, empty or missing
DeclKinds == {"flat", "nested"} \X {"t", "u", "", "missing"} \X {"full", "empty", "missing"}

\* the dict of the declaration of kind k that `source` makes at place i
Fields(k, source, i) ==
    [description |-> Description(source, i)]
    @@ (IF k[2] = "missing" THEN EmptyDict ELSE [name |-> k[2]])
    @@ (IF k[3] = "missing" THEN EmptyDict
        ELSE [parameters |-> IF k[3] = "full" THEN Params(source, i) ELSE EmptyMap])

Decl(k, source, i) ==
    IF k[1] = "nested"
    THEN [type |-> "function", function |-> Fields(k, source, i)]
    ELSE Fields(k, source, i)

DeclLists(source, n) ==
    UNION { {[i \in 1..len |-> Decl(ks[i], source, i)] : ks \in [1..len -> DeclKinds]}
            : len \in 0..n }

\* a tool object of MCPUtil: name, description, params_json_schema
McpTool(i) ==
    [name |-> "t", description |-> Description("server", i),
     params_json_schema |-> Params("server", i)]

MergeInit ==
    /\ tools \in DeclLists("caller", MaxExplicit)
    /\ mcp_tools \in {<<>>, <<McpTool(1)>>}
    /\ registry \in { <<>>,
                       <<Decl(<<"flat", "t", "full">>, "registry", 1)>>,
                       <<Decl(<<"nested", "t", "full">>, "registry", 1)>>,
                       <<Decl(<<"nested", "u", "full">>, "registry", 1)>>,
                       <<[name |-> "u", description |-> Description("registry", 1),
                          params_json_schema |-> Params("registry", 1)]>> }
    /\ mpc = "start"
    /\ is_responses \in BOOLEAN
    /\ provider = "none"
    /\ payload = <<>>
    /\ final_tools = <<>>
    /\ pc = "off"
    /\ loop_count = 0
    /\ messages = <<>>
    /\ clean_kwargs = EmptyDict
    /\ requests = <<>>
    /\ replies = <<>>
    /\ resp = NoResp
    /\ calls = <<>>
    /\ tasks = <<>>
    /\ completed = <<>>
    /\ exc = "none"
    /\ result = NoResp
    /\ warned = FALSE

MergeIdle ==
    /\ tools = <<>>
    /\ mcp_tools = <<>>
    /\ registry = <<>>
    /\ mpc = "off"

\* the schemas _prepare_mcp_tools makes of the tool objects
PrepareMcpTools(tool_objs) ==
    [i \in 1..Len(tool_objs) |->
        [name |-> tool_objs[i].name, description |-> tool_objs[i].description,
         parameters |-> tool_objs[i].params_json_schema]]

\* _normalize_schema
NormalizeSchema(schema) ==
    LET fn == IF "function" \in DOMAIN schema THEN schema.function ELSE schema
    IN  [name |-> GetName(fn, "name"),
         description |-> Get(fn, "description"),
         parameters |-> PyOr(Get(fn, "parameters"), Get(fn, "params_json_schema"))]

\* a later declaration replaces an earlier one of the same name
DedupKeeps_Last(name, deduped) == name \notin {"", NoneName}

\* the name test left out: a declaration without a name is merged like any other
DedupKeeps_Nameless(name, deduped) ==
    \A j \in 1..Len(deduped) : deduped[j].key # name

\* if name and name not in deduped
DedupKeeps(name, deduped) ==
    /\ name \notin {"", NoneName}
    /\ \A j \in 1..Len(deduped) : deduped[j].key # name

\* deduped[name] = schema: a dict keeps the place of a key it already holds
SetItem(deduped, name, schema) ==
    IF \E j \in 1..Len(deduped) : deduped[j].key = name
    THEN [j \in 1..Len(deduped) |->
            IF deduped[j].key = name THEN [key |-> name, value |-> schema] ELSE deduped[j]]
    ELSE Append(deduped, [key |-> name, value |-> schema])

RECURSIVE Dedup(_, _, _)
\* the loop over combined from place i on; deduped holds the dict's items in order
Dedup(combined, i, deduped) ==
    IF i > Len(combined) THEN deduped
    ELSE LET name == NormalizeSchema(combined[i]).name
         IN  Dedup(combined, i + 1,
                   IF DedupKeeps(name, deduped)
                   THEN SetItem(deduped, name, combined[i])
                   ELSE deduped)

\* step 2: the tool definitions in the wire shape of the completion style
BuildTools(deduped, responses) ==
    [j \in 1..Len(deduped) |->
        LET flat == NormalizeSchema(deduped[j].value)
        IN  IF responses
            THEN [type |-> "function", name |-> flat.name,
                  description |-> flat.description, parameters |-> flat.parameters]
            ELSE [type |-> "function", function |-> flat]]

\* combined = explicit + mcp_schemas + decorator
Combined == tools \o PrepareMcpTools(mcp_tools) \o registry

Merge ==
    /\ mpc = "start"
    /\ final_tools' = BuildTools(Dedup(Combined, 1, <<>>), is_responses)
    /\ mpc' = "merged"
    /\ UNCHANGED <<tools, mcp_tools, registry>>
    /\ UNCHANGED <<is_responses, provider, payload, pc, loop_count, messages, clean_kwargs, requests,
                   replies, resp, calls, tasks, completed, exc, result, warned>>
    /\ UNCHANGED <<cvars, bvars, lvars>>

-----------------------------------------------------------------------------
(* The global bridge of src/agentd/mcp_bridge.py: start_bridge, stop_bridge *)
(* and get_bridge called by coroutines of one event loop. A coroutine is    *)
(* suspended only inside MCPBridge.start (runner.setup, site.start) and     *)
(* inside MCPBridge.stop (runner.cleanup).                                  *)

BridgeTasks == 1..MaxTasks
Instances == 1..MaxInstances

\* _bridge is None
NoBridge == 0

\* nothing has been returned yet
NoReturn == [by |-> "nobody", value |-> NoBridge, state |-> "none", after_start |-> FALSE]

BridgeInit ==
    /\ bridge = NoBridge
    /\ bstate = [i \in Instances |-> "none"]
    /\ starts = [i \in Instances |-> 0]
    /\ bpc = [t \in BridgeTasks |-> "idle"]
    /\ bself = [t \in BridgeTasks |-> NoBridge]
    /\ handed = NoReturn
    /\ start_returned = FALSE

BridgeIdle ==
    /\ bridge = NoBridge
    /\ bstate = <<>>
    /\ starts = <<>>
    /\ bpc = <<>>
    /\ bself = <<>>
    /\ handed = NoReturn
    /\ start_returned = FALSE

\* what a caller is handed: the value of _bridge and how far start() of that
\* instance has come ("none": not run, "starting", "ok": returned, "raised")
Handed(by, value) ==
    [by |-> by, value |-> value,
     state |-> IF value = NoBridge THEN "none" ELSE bstate[value],
     after_start |-> start_returned]

\* start_bridge finds no global instance: it makes one, stores it in _bridge
\* and runs its start() up to the first await.
StartBridge(t) ==
    /\ bpc[t] = "idle"
    /\ bridge = NoBridge
    /\ \E i \in Instances :
        /\ bstate[i] = "none"
        /\ \A j \in Instances : bstate[j] = "none" => i <= j
        /\ bridge' = i
        /\ bstate' = [bstate EXCEPT ![i] = "starting"]
        /\ starts' = [starts EXCEPT ![i] = @ + 1]
        /\ bself' = [bself EXCEPT ![t] = i]
    /\ bpc' = [bpc EXCEPT ![t] = "await_start"]
    /\ UNCHANGED <<handed, start_returned>>
    /\ UNCHANGED <<dvars, cvars, mvars, lvars>>

\* start_bridge finds a global instance: return _bridge, without an await.
StartBridgeFinds(t) ==
    /\ bpc[t] = "idle"
    /\ bridge # NoBridge
    /\ handed' = Handed("start_bridge", bridge)
    /\ start_returned' = TRUE
    /\ UNCHANGED <<bridge, bstate, starts, bpc, bself>>
    /\ UNCHANGED <<dvars, cvars, mvars, lvars>>

\* start() of the awaited instance returns the port; start_bridge returns what
\* _bridge holds now.
StartReturns(t) ==
    /\ bpc[t] = "await_start"
    /\ bstate' = [bstate EXCEPT ![bself[t]] = "ok"]
    /\ handed' = [Handed("start_bridge", bridge) EXCEPT
                      !.state = IF bridge = NoBridge THEN "none" ELSE bstate'[bridge]]
    /\ start_returned' = TRUE
    /\ bpc' = [bpc EXCEPT ![t] = "idle"]
    /\ bself' = [bself EXCEPT ![t] = NoBridge]
    /\ UNCHANGED <<bridge, starts>>
    /\ UNCHANGED <<dvars, cvars, mvars, lvars>>

\* start() raises (the port is taken, say): start_bridge raises, and _bridge
\* keeps the instance.
StartRaises(t) ==
    /\ bpc[t] = "await_start"
    /\ bstate' = [bstate EXCEPT ![bself[t]] = "raised"]
    /\ bpc' = [bpc EXCEPT ![t] = "idle"]
    /\ bself' = [bself EXCEPT ![t] = NoBridge]
    /\ UNCHANGED <<bridge, starts, handed, start_returned>>
    /\ UNCHANGED <<dvars, cvars, mvars, lvars>>

\* stop_bridge finds a global instance and awaits its stop() (with none, it
\* returns at once and changes nothing).
StopBridge(t) ==
    /\ bpc[t] = "idle"
    /\ bridge # NoBridge
    /\ bpc' = [bpc EXCEPT ![t] = "await_stop"]
    /\ bself' = [bself EXCEPT ![t] = bridge]
    /\ UNCHANGED <<bridge, bstate, starts, handed, start_returned>>
    /\ UNCHANGED <<dvars, cvars, mvars, lvars>>

\* stop() returns: _bridge = None.
StopReturns(t) ==
    /\ bpc[t] = "await_stop"
    /\ bridge' = NoBridge
    /\ bpc' = [bpc EXCEPT ![t] = "idle"]
    /\ bself' = [bself EXCEPT ![t] = NoBridge]
    /\ UNCHANGED <<bstate, starts, handed, start_returned>>
    /\ UNCHANGED <<dvars, cvars, mvars, lvars>>

\* get_bridge: return _bridge.
GetBridge(t) ==
    /\ bpc[t] = "idle"
    /\ handed' = Handed("get_bridge", bridge)
    /\ UNCHANGED <<bridge, bstate, starts, bpc, bself, start_returned>>
    /\ UNCHANGED <<dvars, cvars, mvars, lvars>>

BridgeNext ==
    \E t \in BridgeTasks :
        \/ StartBridge(t)
        \/ StartBridgeFinds(t)
        \/ StartReturns(t)
        \/ StartRaises(t)
        \/ StopBridge(t)
        \/ StopReturns(t)
        \/ GetBridge(t)

-----------------------------------------------------------------------------
(* One ConversationLog of src/agentd/conversation_logger.py, used by several *)
(* threads: every event goes through _write, which holds the lock of the     *)
(* log while it writes and flushes one line.                                 *)

LogThreads == 1..MaxThreads

\* the events of message(), tool_call() and tool_result()
LogEvents == {"message", "tool_call", "tool_result"}

NoThread == 0

\* the log after __init__: the file is open and holds the session_start line
LogInit ==
    /\ file = <<"session_start">>
    /\ closed = FALSE
    /\ lock = NoThread
    /\ lpc = [t \in LogThreads |-> "idle"]
    /\ levent = [t \in LogThreads |-> "none"]
    /\ ended = FALSE
    /\ log_calls = 0
    /\ swallowed = 0

LogIdle ==
    /\ file = <<>>
    /\ closed = FALSE
    /\ lock = NoThread
    /\ lpc = <<>>
    /\ levent = <<>>
    /\ ended = FALSE
    /\ log_calls = 0
    /\ swallowed = 0

\* message(), tool_call() or tool_result(): the event is built and _write
\* reaches `with self._lock`.
LogEvent(t) ==
    /\ lpc[t] = "idle"
    /\ log_calls < MaxEvents
    /\ \E ev \in LogEvents : levent' = [levent EXCEPT ![t] = ev]
    /\ lpc' = [lpc EXCEPT ![t] = "write"]
    /\ log_calls' = log_calls + 1
    /\ UNCHANGED <<file, closed, lock, ended, swallowed>>
    /\ UNCHANGED <<dvars, cvars, mvars, bvars>>

\* end(turns), called once for a log: its _write of the session_end event
\* reaches `with self._lock`.
End(t) ==
    /\ lpc[t] = "idle"
    /\ ~ended
    /\ ended' = TRUE
    /\ levent' = [levent EXCEPT ![t] = "session_end"]
    /\ lpc' = [lpc EXCEPT ![t] = "write"]
    /\ UNCHANGED <<file, closed, lock, log_calls, swallowed>>
    /\ UNCHANGED <<dvars, cvars, mvars, bvars>>

\* with self._lock: (of _write)
AcquireForWrite(t) ==
    /\ lpc[t] = "write"
    /\ lock = NoThread
    /\ lock' = t
    /\ lpc' = [lpc EXCEPT ![t] = "writing"]
    /\ UNCHANGED <<file, closed, levent, ended, log_calls, swallowed>>
    /\ UNCHANGED <<dvars, cvars, mvars, bvars>>

\* where a thread is when _write has released the lock: end() goes on to its
\* own `with self._lock`, the other methods return
AfterWrite(ev) == IF ev = "session_end" THEN "close" ELSE "idle"

\* self._file.write(...); self._file.flush() under the lock; writing to a
\* closed file raises ValueError, which `except Exception: pass` swallows.
\* Then the lock is released.
WriteLine(t) ==
    /\ lpc[t] = "writing"
    /\ lock = t
    /\ IF closed
       THEN /\ swallowed' = swallowed + 1
            /\ UNCHANGED file
       ELSE /\ file' = Append(file, levent[t])
            /\ UNCHANGED swallowed
    /\ lpc' = [lpc EXCEPT ![t] = AfterWrite(levent[t])]
    /\ lock' = NoThread
    /\ levent' = [levent EXCEPT ![t] = "none"]
    /\ UNCHANGED <<closed, ended, log_calls>>
    /\ UNCHANGED <<dvars, cvars, mvars, bvars>>

\* with self._lock: (of end)
AcquireForClose(t) ==
    /\ lpc[t] = "close"
    /\ lock = NoThread
    /\ lock' = t
    /\ lpc' = [lpc EXCEPT ![t] = "closing"]
    /\ UNCHANGED <<file, closed, levent, ended, log_calls, swallowed>>
    /\ UNCHANGED <<dvars, cvars, mvars, bvars>>

\* self._file.close() under the lock, then the lock is released: end returns.
CloseFile(t) ==
    /\ lpc[t] = "closing"
    /\ lock = t
    /\ closed' = TRUE
    /\ lock' = NoThread
    /\ lpc' = [lpc EXCEPT ![t] = "idle"]
    /\ UNCHANGED <<file, levent, ended, log_calls, swallowed>>
    /\ UNCHANGED <<dvars, cvars, mvars, bvars>>

LogNext ==
    \E t \in LogThreads :
        \/ LogEvent(t)
        \/ End(t)
        \/ AcquireForWrite(t)
        \/ WriteLine(t)
        \/ AcquireForClose(t)
        \/ CloseFile(t)

-----------------------------------------------------------------------------
(* Specifications *)

\* one orchestration call, from step 4 of the handler on
Init == DriverInit /\ ConnIdle /\ MergeIdle /\ BridgeIdle /\ LogIdle

Next == DriverNext

Spec == Init /\ [][Next]_vars

\* the orchestration calls of one client, up to their first backend call
InitConn == ConnInit /\ DriverIdle /\ MergeIdle /\ BridgeIdle /\ LogIdle

NextConn == ConnNext

SpecConn == InitConn /\ [][NextConn]_vars

\* steps 1 and 2 of the handler on the declarations of the three sources
InitMerge == MergeInit /\ ConnIdle /\ BridgeIdle /\ LogIdle

NextMerge == Merge

SpecMerge == InitMerge /\ [][NextMerge]_vars

\* the global bridge and the coroutines using it
InitBridge == BridgeInit /\ DriverIdle /\ ConnIdle /\ MergeIdle /\ LogIdle

NextBridge == BridgeNext

SpecBridge == InitBridge /\ [][NextBridge]_vars

\* one conversation log and the threads using it
InitLog == LogInit /\ DriverIdle /\ ConnIdle /\ MergeIdle /\ BridgeIdle

NextLog == LogNext

SpecLog == InitLog /\ [][NextLog]_vars

-----------------------------------------------------------------------------
(* Properties of the drivers *)

Terminal == pc \in {"returned", "raised"}

Range(f) == {f[i] : i \in DOMAIN f}

\* the dispatch rounds whose gather has returned: each one issued the next backend call
RoundsDone == IF requests = <<>> THEN 0 ELSE Len(requests) - 1

\* a tool this call can execute, asked for with well-formed arguments
Servable(call) ==
    /\ call.name \in server_lookup \cup FUNCTION_REGISTRY
    /\ ValidJson(call.arguments)

RaisingServerCall(call) ==
    /\ call.name \in server_lookup
    /\ ServerBehaviour[call.name] = "raises"

IsToolEntry(e) == "role" \in DOMAIN e /\ e.role = "tool"
IsOutputEntry(e) == "type" \in DOMAIN e /\ e.type = "function_call_output"

RECURSIVE CallIds(_, _)
\* the ids of the calls requested by the first n responses, in request order
CallIds(rs, n) ==
    IF n = 0 THEN <<>>
    ELSE CallIds(rs, n - 1) \o [i \in 1..Len(rs[n].calls) |-> rs[n].calls[i].id]

\* the ids carried by the result entries of the conversation, in conversation order
ResultIds ==
    IF is_responses
    THEN LET es == SelectSeq(messages, IsOutputEntry)
         IN  [i \in 1..Len(es) |-> es[i].call_id]
    ELSE LET es == SelectSeq(messages, IsToolEntry)
         IN  [i \in 1..Len(es) |-> es[i].tool_call_id]

\* C1 (loop termination). The Chat Loop Driver never issues more than
\* MAX_TOOL_LOOPS model calls and never dispatches after the last of them; it is
\* never stuck before its end; and when every response asked for tools that it
\* can execute and none of them raised, the call has ended by returning the
\* response of model call number MAX_TOOL_LOOPS, after MAX_TOOL_LOOPS - 1 dispatch
\* rounds, with the warning emitted.
LoopTermination ==
    ~is_responses =>
        /\ Len(requests) <= MAX_TOOL_LOOPS
        /\ Len(replies) <= Len(requests)
        /\ pc = "gather" => Len(requests) < MAX_TOOL_LOOPS
        /\ warned => Len(requests) = MAX_TOOL_LOOPS
        /\ ~Terminal => ENABLED DriverNext
        /\ ( /\ Terminal
             /\ exc = "none"
             /\ \A k \in 1..Len(replies) :
                    /\ replies[k].calls # <<>>
                    /\ \A i \in 1..Len(replies[k].calls) : Servable(replies[k].calls[i]) )
           => /\ pc = "returned"
              /\ Len(requests) = MAX_TOOL_LOOPS
              /\ Len(replies) = MAX_TOOL_LOOPS
              /\ result = replies[MAX_TOOL_LOOPS]
              /\ warned
              /\ Len(CallIds(replies, MAX_TOOL_LOOPS - 1)) = Len(ResultIds)

CapReached ==
    /\ ~is_responses
    /\ pc = "returned"
    /\ Len(requests) = MAX_TOOL_LOOPS
    /\ result.id = MAX_TOOL_LOOPS
    /\ result.calls # <<>>
    /\ warned

ErrorEntry(call) ==
    [role |-> "tool", name |-> call.name, content |-> ErrorText(call.name),
     tool_call_id |-> call.id]

\* what the tool of a servable, non-raising call hands back for that call
OwnOutput(call) ==
    IF call.name \in server_lookup
    THEN IF ServerBehaviour[call.name] = "content"
         THEN <<"content", call.name, <<"args", call.id[1], call.id[2]>> >>
         ELSE NoneVal
    ELSE <<"text", call.name, <<"args", call.id[1], call.id[2]>> >>

\* C2 (contained failure, chat). A call_tool that raises never becomes the
\* failure of the task or of the orchestration call: its task returns a tool
\* entry with the error text, tagged with the id of the call; every other task
\* of the round returns the result of its own call; and once the round is
\* gathered the entries are in the history and the next model call is issued.
ContainedFailureChat ==
    ~is_responses =>
        /\ exc # "ServerError"
        /\ \A i \in 1..Len(tasks) :
              /\ RaisingServerCall(calls[i]) =>
                    /\ tasks[i].st # "failed"
                    /\ tasks[i].st = "done" => tasks[i].out[2] = ErrorEntry(calls[i])
              /\ (~RaisingServerCall(calls[i]) /\ tasks[i].st = "done") =>
                    tasks[i].out = ChatPart(calls[i], OwnOutput(calls[i]))
        /\ \A k \in 1..RoundsDone : \A i \in 1..Len(replies[k].calls) :
              LET call == replies[k].calls[i]
              IN  IF RaisingServerCall(call)
                  THEN ErrorEntry(call) \in Range(messages)
                  ELSE ChatPart(call, OwnOutput(call))[2] \in Range(messages)

FailureContainedInChat ==
    /\ ~is_responses
    /\ pc = "await_model"
    /\ Len(requests) = 2
    /\ Len(calls) = 2
    /\ calls[1].name = "srv_err"
    /\ calls[2].name = "srv_ok"
    /\ completed = <<1, 2>>
    /\ ErrorEntry(calls[1]) \in Range(messages)

\* C3 (contained failure, responses), as claimed. A call_tool that raises while
\* the function calls of the initial response are dispatched does not end the
\* orchestration call: its output is an error text and the follow-up is issued.
ContainedFailureResponses ==
    is_responses =>
        /\ exc # "ServerError"
        /\ \A i \in 1..Len(tasks) : RaisingServerCall(calls[i]) => tasks[i].st # "failed"

\* C4 (order preservation). In both drivers the result entries of the
\* conversation carry the ids of the requested calls in the order of the
\* requests, round after round, whatever the order in which the calls finished.
OrderPreserved == ResultIds = CallIds(replies, RoundsDone)

ReverseCompletion ==
    /\ ~is_responses
    /\ Len(requests) = 2
    /\ completed = <<3, 2, 1>>
    /\ ResultIds = << <<1, 1>>, <<1, 2>>, <<1, 3>> >>

ReverseCompletionResponses ==
    /\ is_responses
    /\ Len(requests) = 2
    /\ completed = <<3, 2, 1>>
    /\ ResultIds = << <<1, 1>>, <<1, 2>>, <<1, 3>> >>

\* C5 (single follow-up). The Response Follow-up Driver issues at most two
\* backend calls and dispatches only the calls of the initial response; when that
\* response held function calls and the call returns, exactly two backend calls
\* were issued and the response of the second is returned, also when it asks for
\* tools itself: nothing runs after it.
SingleFollowUp ==
    is_responses =>
        /\ Len(requests) <= 2
        /\ Len(replies) >= 1 => calls \in {<<>>, replies[1].calls}
        /\ (pc = "returned" /\ replies[1].calls # <<>>) =>
              /\ Len(requests) = 2
              /\ Len(replies) = 2
              /\ result = replies[2]
              /\ ~ENABLED DriverNext

FollowUpAsksForTools ==
    /\ is_responses
    /\ pc = "returned"
    /\ Len(replies[1].calls) = 2
    /\ result = replies[2]
    /\ result.calls # <<>>

\* C6 (no function call, no follow-up). When the initial response of the
\* Response Follow-up Driver holds no function call, the call has returned that
\* response after one backend call, with nothing dispatched and the input as it was.
NoCallNoFollowUp ==
    (is_responses /\ Len(replies) >= 1 /\ replies[1].calls = <<>>) =>
        /\ pc = "returned"
        /\ result = replies[1]
        /\ Len(requests) = 1
        /\ Len(replies) = 1
        /\ tasks = <<>>
        /\ messages = Payload

ReturnedUnchanged ==
    /\ is_responses
    /\ pc = "returned"
    /\ Len(replies) = 1
    /\ replies[1].calls = <<>>
    /\ result = replies[1]

-----------------------------------------------------------------------------
(* Properties of the Server Connection Cache *)

RECURSIVE Sum(_, _)
Sum(f, S) == IF S = {} THEN 0 ELSE LET x == CHOOSE y \in S : TRUE IN f[x] + Sum(f, S \ {x})

Named(n) == {h \in Handles : HandleName[h] = n}

\* connect() calls started, returned and raised for the server named n
StartedFor(n) == Sum([h \in Handles |-> connects[h].started], Named(n))
ReturnedFor(n) == Sum([h \in Handles |-> connects[h].returned], Named(n))
RaisedFor(n) == Sum([h \in Handles |-> connects[h].raised], Named(n))

\* the handle call p gave to its i-th _ensure_connected (pass 1, then pass 2)
Asked(p, i) == mcp_servers[p][((i - 1) % Len(mcp_servers[p])) + 1]

\* call p takes a step
Steps(p) == cpc'[p] # cpc[p] \/ cpos'[p] # cpos[p] \/ obtained'[p] # obtained[p]

\* C7 (connection idempotence), as claimed: over _ensure_connected calls that
\* do not overlap, connect is invoked at most once per server name.
ConnectInvokedOnce ==
    ~overlap => \A n \in ServerNames : StartedFor(n) <= 1

\* the same, but for the invocations that raised
ConnectOnceUnlessRaised ==
    ~overlap => \A n \in ServerNames :
        /\ StartedFor(n) <= 1 + RaisedFor(n)
        /\ ReturnedFor(n) <= 1

\* C7, amended. Over _ensure_connected calls that do not overlap, connect is
\* invoked again for a server name only after every earlier invocation for it
\* raised, and returns at most once per name; and an _ensure_connected whose
\* server name is a key of the cache invokes no connect, leaves the cache as it
\* is and returns the entry of the cache.
ConnectionIdempotence ==
    [][ /\ ConnectOnceUnlessRaised'
        /\ \A p \in Procs :
              ( /\ cpc[p] = "ensure"
                /\ server_cache[HandleName[Server(p)]] # NoHandle
                /\ Steps(p) )
              => /\ server_cache' = server_cache
                 /\ connects' = connects
                 /\ obtained'[p] = Append(obtained[p], server_cache[HandleName[Server(p)]])
      ]_vars

SequentialCallsShareOneConnect ==
    /\ ~overlap
    /\ \A p \in Procs : cpc[p] = "llm" /\ "a1" \in Range(mcp_servers[p])
    /\ StartedFor("A") = 1
    /\ ReturnedFor("A") = 1

\* C8 (one connect per client lifetime), as claimed: whatever the orchestration
\* calls of a client do, interleaved or not, the connect of a tool server is
\* performed at most once.
ConnectOncePerClient ==
    \A h \in Handles : connects[h].returned <= 1

\* C9 (benign connect race). In every interleaving, an entry of the cache is
\* keyed by the name of its handle and holds a handle whose connect has
\* returned; every handle _ensure_connected has returned to a call is one whose
\* connect has returned, for the server name the call asked for, and that name
\* has its entry in the cache from then on.
BenignRace ==
    /\ \A n \in ServerNames :
          server_cache[n] # NoHandle =>
             /\ HandleName[server_cache[n]] = n
             /\ connects[server_cache[n]].returned >= 1
    /\ \A p \in Procs : \A i \in 1..Len(obtained[p]) :
          /\ connects[obtained[p][i]].returned >= 1
          /\ HandleName[obtained[p][i]] = HandleName[Asked(p, i)]
          /\ server_cache[HandleName[Asked(p, i)]] # NoHandle

RaceOverwrites ==
    /\ overlap
    /\ ReturnedFor("A") >= 2
    /\ \A p \in Procs : cpc[p] = "llm"
    /\ server_cache["A"] # NoHandle

-----------------------------------------------------------------------------
(* Properties of the Schema Merger *)

\* the names a declaration can carry
DeclNames == {"t", "u"}

\* what a declaration says, whatever its shape
Declared(schema) ==
    LET fn == IF "function" \in DOMAIN schema THEN schema.function ELSE schema
    IN  [name |-> GetName(fn, "name"),
         description |-> Get(fn, "description"),
         parameters |-> Get(fn, "parameters")]

\* the declarations of the three sources, in priority order; a server declares
\* its tool objects' name, description and params_json_schema
SourceDecls ==
    << [i \in 1..Len(tools) |-> Declared(tools[i])],
       [i \in 1..Len(mcp_tools) |->
            [name |-> mcp_tools[i].name, description |-> mcp_tools[i].description,
             parameters |-> mcp_tools[i].params_json_schema]],
       [i \in 1..Len(registry) |-> Declared(registry[i])] >>

Declares(k, n) == \E i \in 1..Len(SourceDecls[k]) : SourceDecls[k][i].name = n

\* the first declaration of n in its highest-priority source
Winner(n) ==
    LET k == Min({j \in 1..3 : Declares(j, n)})
        i == Min({j \in 1..Len(SourceDecls[k]) : SourceDecls[k][j].name = n})
    IN  SourceDecls[k][i]

\* name, description and parameters of a merged entry, in either wire shape
Entry(j) ==
    LET e == final_tools[j]
        fn == IF "function" \in DOMAIN e THEN e.function ELSE e
    IN  [name |-> fn.name, description |-> fn.description, parameters |-> fn.parameters]

EntriesOf(n) == {j \in 1..Len(final_tools) : Entry(j).name = n}

Contested(n) == Cardinality({k \in 1..3 : Declares(k, n)}) > 1

\* C10: a name declared by more than one source has exactly one merged entry, and
\* that entry carries the description and the parameters of the first declaration
\* of the highest-priority source (caller, then server, then registry)
DedupPriority ==
    mpc = "merged" =>
        \A n \in DeclNames :
            Contested(n) =>
                /\ Cardinality(EntriesOf(n)) = 1
                /\ \A j \in EntriesOf(n) :
                        /\ Entry(j).description = Winner(n).description
                        /\ Entry(j).parameters = Winner(n).parameters

\* the part of C10 the code keeps: one entry, of the winning declaration, with its
\* description, and with its parameters unless they are the empty mapping
DedupPriorityButEmptyParameters ==
    mpc = "merged" =>
        \A n \in DeclNames :
            Contested(n) =>
                /\ Cardinality(EntriesOf(n)) = 1
                /\ \A j \in EntriesOf(n) :
                        /\ Entry(j).description = Winner(n).description
                        /\ Entry(j).parameters =
                              PyOr(Winner(n).parameters, NoneVal)

\* a contested name whose winning declaration has the empty mapping as parameters
EmptyParametersWin ==
    /\ mpc = "merged"
    /\ \E n \in DeclNames : Contested(n) /\ Winner(n).parameters = EmptyMap

\* the nameless declarations of the caller: the name empty or missing
Nameless == {i \in 1..Len(tools) : Declared(tools[i]).name \in {"", NoneName}}

\* C11: the merged tool list has no entry with an empty or missing name and no
\* two entries with the same name, and every name some source declares has its
\* entry, whatever nameless declarations stand before it
MergedNamesUnique ==
    mpc = "merged" =>
        /\ \A j \in 1..Len(final_tools) : Entry(j).name \in DeclNames
        /\ \A j, k \in 1..Len(final_tools) : Entry(j).name = Entry(k).name => j = k
        /\ \A n \in DeclNames :
              (\E k \in 1..3 : Declares(k, n)) => Cardinality(EntriesOf(n)) = 1
        /\ Len(final_tools) <= Len(Combined) - Cardinality(Nameless)

\* a nameless declaration first, a named one after it, which is merged
NamelessDropped ==
    /\ mpc = "merged"
    /\ Len(tools) = 2
    /\ 1 \in Nameless
    /\ Declared(tools[2]).name = "t"
    /\ Cardinality(EntriesOf("t")) = 1
    /\ registry # <<>>

\* a declaration in the flat shape with its three fields given
IsFlatSchema(schema) == DOMAIN schema = {"name", "description", "parameters"}

\* the first part of C12, which the code keeps: a declaration nested under
\* 'function' normalizes to what its content normalizes to when given flat
NormalizeShapesAgree ==
    \A i \in 1..Len(tools) :
        "function" \in DOMAIN tools[i] =>
            NormalizeSchema(tools[i]) = NormalizeSchema(tools[i].function)

\* C12: a nested and a flat declaration with the same name, description and
\* parameters normalize to the same flat schema, and a declaration that is
\* already a flat schema {name, description, parameters} normalizes to itself
NormalizationIdentity ==
    mpc = "merged" =>
        /\ NormalizeShapesAgree
        /\ \A i \in 1..Len(tools) :
              IsFlatSchema(tools[i]) => NormalizeSchema(tools[i]) = tools[i]

\* a flat schema whose parameters are the empty mapping has been merged
FlatEmptyParametersMerged ==
    /\ mpc = "merged"
    /\ \E i \in 1..Len(tools) : IsFlatSchema(tools[i]) /\ tools[i].parameters = EmptyMap

-----------------------------------------------------------------------------
(* Properties of the requests the drivers issue *)

\* C13: in the Chat Loop Driver the first model request carries the merged tool
\* list (with a tool_choice, the caller's or 'auto'), and every request issued
\* after a dispatch round carries no tool declarations
ToolsOnFirstRequestOnly ==
    ~is_responses =>
        \A k \in 1..Len(requests) :
            IF k = 1
            THEN /\ requests[k].tools = MergedNames
                 /\ "tool_choice" \in DOMAIN requests[k].kwargs
            ELSE requests[k].tools = Absent

\* three requests, the caller having chosen the tool_choice themselves
ToolsDroppedAfterRound ==
    /\ ~is_responses
    /\ Len(requests) = 3
    /\ requests[1].tools = MergedNames
    /\ requests[1].kwargs["tool_choice"] = <<"text", "required">>
    /\ requests[2].tools = Absent
    /\ requests[3].tools = Absent

-----------------------------------------------------------------------------
(* Properties of the caller-handled tool guard and of tool lookup *)

\* the names the caller declared, in either shape
CallerDeclared == {Declared(explicit[i]).name : i \in 1..Len(explicit)}

\* the calls of a response that ask for a tool only the caller declared
CallerHandled(cs, names) ==
    {i \in 1..Len(cs) : cs[i].name \in names \ (server_lookup \cup SCHEMA_REGISTRY)}

\* response k has been returned as it is: nothing of its round was executed or
\* added to the history, no further request was issued, nothing was raised
ReturnedRaw(k) ==
    /\ pc = "returned"
    /\ exc = "none"
    /\ result = replies[k]
    /\ Len(replies) = k
    /\ Len(requests) = k
    /\ calls # replies[k].calls
    /\ ResultIds = CallIds(replies, k - 1)

\* C14: a chat response asking for a tool that only the caller declared, flat
\* or nested under 'function', is returned as it is
CallerGuard ==
    ~is_responses =>
        \A k \in 1..Len(replies) :
            CallerHandled(replies[k].calls, CallerDeclared) # {} => ReturnedRaw(k)

\* what the code keeps of C14: the guard for the names declared in the flat
\* shape, when the arguments of the calls up to the guarded one are well-formed
CallerGuardFlat ==
    ~is_responses =>
        \A k \in 1..Len(replies) :
            LET guarded == CallerHandled(replies[k].calls, explicit_names)
            IN  ( /\ guarded # {}
                  /\ \A i \in 1..Min(guarded) : ValidJson(replies[k].calls[i].arguments) )
                => ReturnedRaw(k)

\* a response asking for a server tool and then for the caller's flat tool
GuardReturnsRaw ==
    /\ ~is_responses
    /\ Len(replies) = 1
    /\ Len(replies[1].calls) = 2
    /\ replies[1].calls[1].name = "srv_ok"
    /\ replies[1].calls[2].name = "caller"
    /\ ReturnedRaw(1)

\* a response asking for the caller's nested tool ends in the lookup failure
NestedNotGuarded ==
    /\ ~is_responses
    /\ Len(replies) = 1
    /\ Len(replies[1].calls) = 1
    /\ replies[1].calls[1].name = "callerN"
    /\ pc = "raised"
    /\ exc = "KeyError"

\* the calls of the dispatched round that ask for a tool nobody can execute
Unregistered == {i \in 1..Len(calls) : calls[i].name \notin server_lookup \cup FUNCTION_REGISTRY}

FailedTasks == {i \in 1..Len(tasks) : tasks[i].st = "failed"}

\* a round was dispatched and the first of its tasks to fail asked for an
\* unregistered tool
UnregisteredDispatched ==
    /\ tasks # <<>>
    /\ \A i \in 1..Len(tasks) : tasks[i].st # "pending"
    /\ FailedTasks # {}
    /\ Min(FailedTasks) \in Unregistered

\* the orchestration call aborts with failure `err`: nothing is returned and no
\* further request is issued
AbortsWith(errs) ==
    /\ exc \in errs
    /\ pc \in {"gather", "raised"}
    /\ result = NoResp
    /\ Len(requests) = Len(replies)
    /\ ~ENABLED GatherReturns

\* C15: in both drivers, dispatching a call to a tool that is neither a server
\* tool nor a registered callable aborts the orchestration call with the
\* 'tool not registered' lookup failure
UnregisteredAborts ==
    UnregisteredDispatched => AbortsWith({"KeyError"})

\* what the code keeps of C15: the chat driver aborts with the lookup failure,
\* the response driver aborts, with the failure of calling None
UnregisteredAbortsSomehow ==
    UnregisteredDispatched =>
        AbortsWith(IF is_responses THEN {"TypeError"} ELSE {"KeyError"})

\* the response driver has aborted on an unregistered tool
UnregisteredInResponses ==
    /\ is_responses
    /\ UnregisteredDispatched
    /\ pc = "raised"
    /\ exc = "TypeError"
    /\ Len(calls) = 2
    /\ calls[1].name = "srv_ok"
    /\ calls[2].name = "ghost"

-----------------------------------------------------------------------------
(* Properties of a failing connect *)

\* call p has been handed a handle by each _ensure_connected of both passes
AllObtained(p) == Len(obtained[p]) = 2 * Len(mcp_servers[p])

\* C16: a connect that raises ends its orchestration call there: the cache is
\* left as it was and holds the server's name only if a connect for that name
\* returned, no handle is handed out, the call takes no further step (no retry,
\* no model call), only a call that got all its handles reaches the model, and
\* every connect that raises ends a call this way
ConnectFailFast ==
    [][ \A p \in Procs :
          /\ (cpc[p] = "connect" /\ cpc'[p] = "raised") =>
                /\ server_cache' = server_cache
                /\ obtained' = obtained
                /\ connects'[Server(p)].started = connects[Server(p)].started
                /\ server_cache'[HandleName[Server(p)]] # NoHandle
                      => ReturnedFor(HandleName[Server(p)])' >= 1
          /\ cpc[p] = "raised" =>
                /\ cpc'[p] = "raised"
                /\ cpos'[p] = cpos[p]
                /\ obtained'[p] = obtained[p]
          /\ cpc'[p] = "llm" => AllObtained(p)'
          /\ cpc'[p] = "raised" => ~AllObtained(p)'
          /\ connects'[Server(p)].raised > connects[Server(p)].raised =>
                \E q \in Procs :
                    cpc[q] = "connect" /\ Server(q) = Server(p) /\ cpc'[q] = "raised"
      ]_vars

\* a connect for A raised, and a later call is connecting A again
ConnectAttemptedAgain ==
    /\ ~overlap
    /\ RaisedFor("A") = 1
    /\ StartedFor("A") = 2
    /\ server_cache["A"] = NoHandle
    /\ \E p, q \in Procs :
          /\ cpc[p] = "raised"
          /\ cpc[q] = "connect"
          /\ HandleName[Server(q)] = "A"

-----------------------------------------------------------------------------
(* Properties of the conversation the drivers build *)

RECURSIVE AllCalls(_, _)
\* the calls requested by the first n responses, in request order
AllCalls(rs, n) == IF n = 0 THEN <<>> ELSE AllCalls(rs, n - 1) \o rs[n].calls

IsAssistantEntry(e) == "role" \in DOMAIN e /\ e.role = "assistant"

\* C17, as claimed: each dispatch round of the Chat Loop Driver adds one
\* assistant entry and then one tool entry per call
OneAssistantEntryPerRound ==
    ~is_responses =>
        /\ Len(SelectSeq(messages, IsAssistantEntry)) = RoundsDone
        /\ Len(messages) = Len(Payload) + RoundsDone + Len(AllCalls(replies, RoundsDone))

\* C17, amended: each dispatch round of the Chat Loop Driver adds, for each of
\* its k calls in request order, one assistant entry recording that call alone
\* followed by the tool entry of that call: 2k entries, nothing else
EntryPairPerCall ==
    ~is_responses =>
        LET done == AllCalls(replies, RoundsDone)
            base == Len(Payload)
        IN  /\ Len(messages) = base + 2 * Len(done)
            /\ SubSeq(messages, 1, base) = Payload
            /\ \A j \in 1..Len(done) :
                  /\ messages[base + 2 * j - 1] =
                        [role |-> "assistant", tool_calls |-> <<done[j]>>]
                  /\ IsToolEntry(messages[base + 2 * j])
                  /\ messages[base + 2 * j].tool_call_id = done[j].id
                  /\ messages[base + 2 * j].name = done[j].name

\* a round of three calls has been added to the history
ThreeCallsAdded ==
    /\ ~is_responses
    /\ RoundsDone = 1
    /\ Len(replies[1].calls) = 3
    /\ Len(messages) = Len(Payload) + 6
    /\ Len(SelectSeq(messages, IsAssistantEntry)) = 3

\* what executing a call that can be served produces: the error text when its
\* call_tool raises (chat), the result of its tool otherwise
ProducedBy(call) ==
    IF RaisingServerCall(call) THEN ErrorText(call.name) ELSE OwnOutput(call)

\* C18: every result entry of the conversation carries the id of the call whose
\* execution produced its content. Chat: the tool entry of each dispatched call
\* has that call's id and the text of that call's output. Responses: one
\* function_call_output entry per function call of the initial response, with
\* that call's id and that call's output; no two entries share an id.
ResultCorrelation ==
    LET done == AllCalls(replies, RoundsDone)
        base == Len(Payload)
    IN  IF is_responses
        THEN LET es == SelectSeq(messages, IsOutputEntry)
             IN  /\ Len(es) = Len(done)
                 /\ \A j \in 1..Len(done) :
                       /\ es[j].call_id = done[j].id
                       /\ es[j].output =
                             IF IsStr(ProducedBy(done[j])) THEN ProducedBy(done[j])
                             ELSE JsonDumps(ProducedBy(done[j]))
                 /\ \A j, k \in 1..Len(es) : es[j].call_id = es[k].call_id => j = k
        ELSE LET es == SelectSeq(messages, IsToolEntry)
             IN  /\ Len(es) = Len(done)
                 /\ \A j \in 1..Len(done) :
                       /\ es[j].tool_call_id = done[j].id
                       /\ es[j].content = PyStr(ProducedBy(done[j]))
                 /\ \A j, k \in 1..Len(es) : es[j].tool_call_id = es[k].tool_call_id => j = k

\* two function calls answered in reverse order and added to the input
OutputsCorrelated ==
    /\ is_responses
    /\ RoundsDone = 1
    /\ completed = <<2, 1>>
    /\ Len(SelectSeq(messages, IsOutputEntry)) = 2
    /\ calls[1].name = "srv_ok"
    /\ calls[2].name = "srv_nc"

\* the same in the chat driver, with a local tool among the calls
ToolEntriesCorrelated ==
    /\ ~is_responses
    /\ RoundsDone = 2
    /\ Len(SelectSeq(messages, IsToolEntry)) = 4
    /\ calls[1].name = "loc"
    /\ calls[2].name = "srv_err"

\* C19: the follow-up request of the Response Follow-up Driver names the initial
\* response as its predecessor, whatever previous_response_id the caller gave,
\* carries the caller's input followed by one function_call_output entry per
\* function call, and carries no tool declarations
FollowUpShape ==
    (is_responses /\ Len(requests) = 2) =>
        LET follow == requests[2]
            base == Len(Payload)
        IN  /\ follow.previous_response_id = replies[1].id
            /\ "previous_response_id" \notin DOMAIN follow.kwargs
            /\ follow.tools = Absent
            /\ "tools" \notin DOMAIN follow.kwargs
            /\ follow.input_len = Len(messages)
            /\ Len(messages) = base + Len(replies[1].calls)
            /\ SubSeq(messages, 1, base) = Payload
            /\ \A j \in 1..Len(replies[1].calls) :
                  /\ IsOutputEntry(messages[base + j])
                  /\ messages[base + j].call_id = replies[1].calls[j].id
            /\ requests[1].input_len = base
            /\ requests[1].tools = MergedNames

\* a follow-up issued for a caller who passed a previous_response_id of their own
FollowUpOverridesCallersId ==
    /\ is_responses
    /\ Len(requests) = 2
    /\ "previous_response_id" \in DOMAIN requests[1].kwargs
    /\ requests[1].kwargs["previous_response_id"] # replies[1].id
    /\ requests[2].previous_response_id = replies[1].id
    /\ Len(replies[1].calls) = 2

\* C20: an exception raised by a registered local callable does not become the
\* failure of its task or of the orchestration call
LocalFailureContained ==
    /\ exc # "ToolError"
    /\ \A i \in 1..Len(tasks) : tasks[i].st = "failed" => tasks[i].err # "ToolError"

\* what the code does instead, in both drivers: the exception of the callable
\* ends the orchestration call, with no result entry and no further request
LocalFailureAborts ==
    exc = "ToolError" =>
        /\ pc \in {"gather", "raised"}
        /\ result = NoResp
        /\ Len(requests) = Len(replies)
        /\ ~ENABLED GatherReturns
        /\ ResultIds = CallIds(replies, Len(replies) - 1)

\* a chat round of a server tool and a local callable that raised has aborted
LocalFailureAbortedChat ==
    /\ ~is_responses
    /\ pc = "raised"
    /\ exc = "ToolError"
    /\ Len(calls) = 2
    /\ calls[1].name = "srv_ok"
    /\ calls[2].name = "loc"
    /\ tasks[1].st = "done"

-----------------------------------------------------------------------------
(* Properties of the dispatch round as a whole *)

\* the members of the batch that are still running
InFlight == {i \in 1..Len(tasks) : tasks[i].st = "waiting"}

\* C21: while a member of the dispatched batch is still running, the
\* orchestration call has neither ended nor issued its next backend call, also
\* when another member has failed
NoMidRoundAbandonment ==
    InFlight # {} =>
        /\ pc = "gather"
        /\ Len(requests) = Len(replies)

\* what the code keeps of C21: the batch is waited for as long as no member
\* has failed
NoAbandonmentUnlessFailed ==
    (InFlight # {} /\ exc = "none") =>
        /\ pc = "gather"
        /\ Len(requests) = Len(replies)

\* the chat driver has raised the lookup failure of one member while a server
\* call of the same batch is still running, which then completes unobserved
AbandonedInFlight ==
    /\ ~is_responses
    /\ pc = "raised"
    /\ exc = "KeyError"
    /\ Len(calls) = 3
    /\ calls[1].name = "srv_ok"
    /\ calls[2].name = "ghost"
    /\ calls[3].name = "srv_ok"
    /\ tasks[1].st = "waiting"
    /\ tasks[3].st = "waiting"

-----------------------------------------------------------------------------
(* Properties of malformed tool arguments *)

\* the calls of a response whose arguments are no JSON text
Malformed(cs) == {i \in 1..Len(cs) : ~ValidJson(cs[i].arguments)}

\* response k made the orchestration call abort with the parse failure: nothing
\* was returned, executed or added to the history, no further request was issued
AbortedOnParse(k) ==
    /\ pc = "raised"
    /\ exc = "JSONDecodeError"
    /\ result = NoResp
    /\ Len(replies) = k
    /\ Len(requests) = k
    /\ calls # replies[k].calls
    /\ ResultIds = CallIds(replies, k - 1)

\* C22, as claimed: a response holding a tool call with malformed arguments
\* always makes the orchestration call abort with the parse failure
MalformedAlwaysFatal ==
    \A k \in 1..Len(replies) :
        Malformed(replies[k].calls) # {} => AbortedOnParse(k)

\* the driver goes on to the calls of response k and reaches the first
\* malformed one: chat, a response below the loop cap with no call before the
\* malformed one that the caller-handled guard returns on (the arguments of a
\* call are parsed before the guard looks at its name); responses, the initial
\* response
ParsesMalformed(k) ==
    /\ Malformed(replies[k].calls) # {}
    /\ IF is_responses THEN k = 1
       ELSE /\ k < MAX_TOOL_LOOPS
            /\ \A i \in CallerHandled(replies[k].calls, explicit_names) :
                  i >= Min(Malformed(replies[k].calls))

\* C22, amended: a response whose calls the driver parses up to a malformed one
\* makes the orchestration call abort with the parse failure, wherever the
\* malformed call stands; a response the driver returns without parsing it that
\* far (at the loop cap, on the guard, as the follow-up) is returned as it is
MalformedFatalWhenParsed ==
    \A k \in 1..Len(replies) :
        Malformed(replies[k].calls) # {} =>
            IF ParsesMalformed(k) THEN AbortedOnParse(k)
            ELSE /\ pc = "returned"
                 /\ exc = "none"
                 /\ result = replies[k]
                 /\ Len(replies) = k
                 /\ ResultIds = CallIds(replies, k - 1)

\* a well-formed server call first, the malformed call last: nothing ran
MalformedLastAborts ==
    /\ ~is_responses
    /\ Len(replies) = 1
    /\ Len(replies[1].calls) = 3
    /\ Malformed(replies[1].calls) = {3}
    /\ replies[1].calls[1].name = "srv_ok"
    /\ AbortedOnParse(1)
    /\ tasks = <<>>

\* the response of the last iteration holds a malformed call and is returned
MalformedReturnedAtCap ==
    /\ ~is_responses
    /\ Len(replies) = MAX_TOOL_LOOPS
    /\ Malformed(replies[MAX_TOOL_LOOPS].calls) # {}
    /\ pc = "returned"
    /\ warned

-----------------------------------------------------------------------------
(* The backend of the model calls.                                         *)

\* C23: every model call of one orchestration call (each chat round, the
\* initial and the follow-up response call) goes to the backend resolved from
\* the model identifier, the patched method of the client when the provider is
\* the native API and the routing layer otherwise, and a request carries the
\* credential exactly when it goes to the routing layer.
BackendConsistency ==
    \A i \in 1..Len(requests) :
        /\ requests[i].backend = (IF provider = "openai" THEN "orig_fn" ELSE "litellm")
        /\ requests[i].backend = requests[1].backend
        /\ (requests[i].api_key # Absent) <=> (requests[i].backend = "litellm")

\* the follow-up of the response driver went to the routing layer with the credential
RoutedFollowUp ==
    /\ Len(requests) >= 2
    /\ requests[2].backend = "litellm"
    /\ requests[2].api_key # Absent
    /\ is_responses

\* the chat loop in its third round on the native API, without a credential
ThirdNativeRound ==
    /\ ~is_responses
    /\ Len(requests) = 3
    /\ requests[3].backend = "orig_fn"
    /\ requests[3].api_key = Absent

-----------------------------------------------------------------------------
(* The output of a tool-server call.                                       *)

\* the tasks of the current batch whose call_tool has returned a reply
ServedByServer ==
    {i \in 1..Len(tasks) :
        /\ calls[i].name \in server_lookup
        /\ ServerBehaviour[calls[i].name] # "raises"
        /\ tasks[i].st = "done"}

\* what the dispatcher made of the reply of task i: the content of the tool
\* entry (chat), the value handed to the gather (responses)
OutputOf(i) == IF is_responses THEN tasks[i].out ELSE tasks[i].out[2].content

\* a value as the driver passes it on: the chat path applies str to it
Rendered(x) == IF is_responses THEN x ELSE PyStr(x)

\* C24: on a successful tool-server call the output is the content field of
\* the reply when the reply has one, and it is never the empty value None
\* when the reply has none (the whole reply is expected then), in both drivers.
ContentOrWholeReply ==
    \A i \in ServedByServer :
        LET reply == ReplyOf(calls[i].name, ParseArgs(calls[i].arguments))
        IN  /\ "content" \in DOMAIN reply => OutputOf(i) = Rendered(reply.content)
            /\ "content" \notin DOMAIN reply => OutputOf(i) # Rendered(NoneVal)

\* the part of it that holds: a content field, when present, is the output
ContentWhenPresent ==
    \A i \in ServedByServer :
        LET reply == ReplyOf(calls[i].name, ParseArgs(calls[i].arguments))
        IN  "content" \in DOMAIN reply => OutputOf(i) = Rendered(reply.content)

\* a reply without a content field has become the output None, and the
\* driver has passed it on to the model in its next request
NoneOutputSent ==
    /\ Len(requests) = 2
    /\ \E i \in ServedByServer :
        /\ "content" \notin DOMAIN ReplyOf(calls[i].name, ParseArgs(calls[i].arguments))
        /\ OutputOf(i) = Rendered(NoneVal)

-----------------------------------------------------------------------------
(* The caller's message list in the Chat Loop Driver.                      *)

\* s is the beginning of t
StartsWith(t, s) == Len(s) <= Len(t) /\ SubSeq(t, 1, Len(s)) = s

\* the caller's list is its original entries followed by the entries of the
\* completed dispatch rounds, one pair per call in round and request order
CallersListNow ==
    LET done == AllCalls(replies, RoundsDone)
        base == Len(Payload)
    IN  /\ StartsWith(payload, Payload)
        /\ Len(payload) = base + 2 * Len(done)
        /\ \A j \in 1..Len(done) :
              /\ payload[base + 2 * j - 1] = [role |-> "assistant", tool_calls |-> <<done[j]>>]
              /\ payload[base + 2 * j].tool_call_id = done[j].id
        /\ \A i \in 1..Len(requests) :
              requests[i].input_len = base + 2 * Len(AllCalls(replies, i - 1))

\* C25: the chat history is built in place on the caller's message list and is
\* append-only: at every model call and at every exit of the Chat Loop Driver
\* (return, guard return, abort) the caller's list is its original entries,
\* unmodified and in order, followed by the entries of the completed dispatch
\* rounds in round order; every step leaves the entries it finds where they
\* are, and an abort takes nothing back.
ChatHistoryAppendOnly ==
    /\ [](~is_responses /\ pc # "off" => CallersListNow)
    /\ [][~is_responses => StartsWith(payload', payload)]_vars

\* the chat loop aborted in its second round: the entries of the first round
\* are in the caller's list
AbortKeepsFirstRound ==
    /\ ~is_responses
    /\ pc = "raised"
    /\ RoundsDone = 1
    /\ Len(replies) = 2
    /\ Len(payload) = Len(Payload) + 2 * Len(replies[1].calls)
    /\ Len(replies[1].calls) >= 2

\* the guard returned in the second round, after a round of dispatches
GuardReturnKeepsFirstRound ==
    /\ ~is_responses
    /\ pc = "returned"
    /\ RoundsDone = 1
    /\ Len(replies) = 2
    /\ replies[2].calls # <<>>
    /\ Len(payload) = Len(Payload) + 2 * Len(replies[1].calls)

-----------------------------------------------------------------------------
(* tool_choice without tool declarations.                                  *)

\* the caller passed no tool_choice: the one of the first request, if any, is
\* the 'auto' the handler sets itself
NoToolChoiceFromCaller ==
    IF requests = <<>> THEN "tool_choice" \notin DOMAIN clean_kwargs
    ELSE Get(requests[1].kwargs, "tool_choice") \in {NoneVal, <<"text", "auto">>}

\* request r names a tool_choice and declares no tools
ToolChoiceAlone(r) ==
    "tool_choice" \in DOMAIN r.kwargs /\ r.tools \in {Absent, NoneVal, <<>>}

\* C26: when the caller supplies no tool_choice, no backend request of either
\* driver carries a tool_choice unless it also carries tool declarations: the
\* chat requests after the first round and the follow-up of the response
\* driver, which carry no tools, carry no tool_choice.
ToolChoiceNeedsTools ==
    NoToolChoiceFromCaller =>
        \A i \in 1..Len(requests) : ~ToolChoiceAlone(requests[i])

\* the part of it that holds: the requests of the Chat Loop Driver, whatever
\* the caller passed
ChatToolChoiceNeedsTools ==
    ~is_responses => \A i \in 1..Len(requests) : ~ToolChoiceAlone(requests[i])

\* the follow-up of the response driver went out without tools and with the
\* tool_choice 'auto' that step 4 of the handler had set for the first request
FollowUpKeepsAuto ==
    /\ is_responses
    /\ NoToolChoiceFromCaller
    /\ Len(requests) = 2
    /\ requests[2].tools = Absent
    /\ Get(requests[2].kwargs, "tool_choice") = <<"text", "auto">>

-----------------------------------------------------------------------------
(* The global bridge.                                                      *)

\* C27: every MCPBridge returned by start_bridge, and every value other than
\* None returned by get_bridge once a start_bridge call has returned, is an
\* instance whose start() has completed successfully, also when start_bridge
\* calls interleave at the await of start() and after a start() that failed;
\* and start() runs at most once per global instance.
BridgeReturnedStarted ==
    /\ handed.by = "start_bridge" /\ handed.value # NoBridge => handed.state = "ok"
    /\ handed.by = "get_bridge" /\ handed.after_start /\ handed.value # NoBridge
          => handed.state = "ok"
    /\ \A i \in DOMAIN starts : starts[i] <= 1

\* the part of it that holds: start() is run once on every instance made,
\* never twice
StartOncePerInstance ==
    \A i \in DOMAIN starts :
        /\ starts[i] <= 1
        /\ starts[i] = 0 <=> bstate[i] = "none"

\* a second start_bridge call has been handed the instance the first call is
\* still starting
HandedWhileStarting ==
    /\ handed.by = "start_bridge"
    /\ handed.value # NoBridge
    /\ handed.state = "starting"
    /\ \E t \in BridgeTasks : bpc[t] = "await_start" /\ bself[t] = handed.value

\* start_bridge has been handed the instance whose start() had raised
HandedAfterFailedStart ==
    /\ handed.by = "start_bridge"
    /\ handed.value # NoBridge
    /\ handed.state = "raised"
    /\ \A t \in BridgeTasks : bpc[t] = "idle"

-----------------------------------------------------------------------------
(* The conversation log.                                                   *)

\* C28: the session_end event is the last line of the log file: once end()
\* has been called nothing is written after the session_end line, also when
\* other threads log events while end() runs, and a logging call made after
\* end() does not raise.
SessionEndLast ==
    \A k \in 1..Len(file) : file[k] = "session_end" => k = Len(file)

\* the part of it that holds: the lock is held by the one thread that writes
\* or closes, and what is logged once the file is closed is dropped silently,
\* the write raising inside _write only
ClosedLogDrops ==
    /\ \A t \in DOMAIN lpc : lpc[t] \in {"writing", "closing"} <=> lock = t
    /\ swallowed > 0 => closed
    /\ closed => "session_end" \in {file[k] : k \in 1..Len(file)}

\* a thread has written an event between the two locked sections of end():
\* the log file goes on after its session_end line
EventAfterSessionEnd ==
    /\ Len(file) >= 3
    /\ file[Len(file) - 1] = "session_end"
    /\ file[Len(file)] \in LogEvents
    /\ closed

=============================================================================
